---- MODULE Spec2Model ----
(***************************************************************************)
(* A model of flackup/fileinfo.py: the cue sheet view (CueSheet), the      *)
(* namespaced tag store (Tags) and the metadata session (FileInfo) with    *)
(* its picture operations.                                                 *)
(*                                                                         *)
(* Python values are modelled as follows.                                  *)
(*   - A Python str used as a tag VALUE is a sequence of one-character     *)
(*     strings (<<"B","a","r">> is 'Bar'), so that indexing it is          *)
(*     meaningful.  Tag names and keys are TLA+ strings, joined with \o.   *)
(*   - None / an unset attribute is the record [some |-> FALSE]; a present *)
(*     value x is [some |-> TRUE, v |-> x].                                *)
(*   - A dict is a function whose domain is the set of its keys.           *)
(*   - The mutagen comment block (VCFLACDict) is a function from key to    *)
(*     the LIST of that key's values; keys are compared as written (the    *)
(*     model only uses upper-case keys).                                   *)
(***************************************************************************)
EXTENDS Integers, Sequences, FiniteSets, TLC

VARIABLES
    disk,             \* the FLAC file's metadata blocks as last persisted
    flac,             \* FileInfo._flac: the in-memory container, or unset
    parse_ok,         \* FileInfo.parse_ok
    parse_exception,  \* FileInfo.parse_exception
    cuesheet,         \* FileInfo.cuesheet
    tags,             \* FileInfo.tags
    last              \* the last call made: operation, arguments, outcome

vars == <<disk, flac, parse_ok, parse_exception, cuesheet, tags, last>>

----------------------------------------------------------------------------
(* Bounds of the model. *)

\* Track numbers passed to update_track / track_tags are 1..MaxTrackNumber.
MaxTrackNumber == 1
\* A cue sheet has at most this many tracks.
MaxTracks == 3
\* A parsed picture list has at most this many pictures.
MaxParsedPictures == 2

\* The highest track number passed to update_track where two tracks are
\* told apart, and the highest number whose key prefix is compared.
MaxScopeTrack == 2
MaxEncodedNumber == 120

----------------------------------------------------------------------------
(* Generic helpers. *)

None == [some |-> FALSE]
Some(x) == [some |-> TRUE, v |-> x]

EmptyDict == [k \in {} |-> 0]

\* f with key k bound to val (dict assignment).
DictSet(f, k, val) == [x \in (DOMAIN f) \cup {k} |-> IF x = k THEN val ELSE f[x]]

\* f without key k (del f[k]).
DictDel(f, k) == [x \in (DOMAIN f) \ {k} |-> f[x]]

\* f restricted to the keys in S.
Restrict(f, S) == [x \in (DOMAIN f) \cap S |-> f[x]]

Range(s) == {s[i] : i \in DOMAIN s}

\* The elements of s at the positions in keep, from position i on and in
\* order: the list a comprehension builds, keep being the positions whose
\* element passes its condition.
RECURSIVE SelectFrom(_, _, _)
SelectFrom(s, keep, i) ==
    IF i > Len(s) THEN <<>>
    ELSE (IF i \in keep THEN <<s[i]>> ELSE <<>>) \o SelectFrom(s, keep, i + 1)

----------------------------------------------------------------------------
(* Module constants of fileinfo.py. *)

_COMMON_TAGS == <<"ARTIST", "GENRE", "HIDE", "PERFORMER", "TITLE">>
ALBUM_TAGS == _COMMON_TAGS \o <<"DATE", "RELEASE_MBID">>
TRACK_TAGS == _COMMON_TAGS
_VERSION_NUMBER == 1
_VERSION_TAG == "FLACKUP_VERSION"

\* One decimal digit as a one-character string.
DigitChar(n) ==
    CASE n = 0 -> "0" [] n = 1 -> "1" [] n = 2 -> "2" [] n = 3 -> "3"
      [] n = 4 -> "4" [] n = 5 -> "5" [] n = 6 -> "6" [] n = 7 -> "7"
      [] n = 8 -> "8" [] n = 9 -> "9"

\* str(n) for a natural number n, as a tag value (sequence of characters).
RECURSIVE StrOf(_)
StrOf(n) == IF n < 10 THEN <<DigitChar(n)>>
            ELSE StrOf(n \div 10) \o <<DigitChar(n % 10)>>

\* '%02d' % n for a natural number n, as a key fragment.
RECURSIVE Decimal(_)
Decimal(n) == IF n < 10 THEN DigitChar(n)
              ELSE Decimal(n \div 10) \o DigitChar(n % 10)

Format02d(n) == IF n < 10 THEN "0" \o DigitChar(n) ELSE Decimal(n)

\* A variant of the prefix that leaves the number out.
TrackPrefix_Unnumbered(number) == "TRACK_"

\* prefix = 'TRACK_%02d_' % number
TrackPrefix(number) == "TRACK_" \o Format02d(number) \o "_"

----------------------------------------------------------------------------
(* CueSheet. *)

\* track(t): a CueSheetTrack from a mutagen cue sheet track.
CueSheetTrack(t) ==
    [number |-> t.track_number, offset |-> t.start_offset, type |-> t.type]

\* CueSheet.__init__: self.tracks = [track(t) for t in mutagen_cuesheet.tracks]
CueSheetInit(mutagen_cuesheet) ==
    [tracks |-> [i \in DOMAIN mutagen_cuesheet.tracks |->
                    CueSheetTrack(mutagen_cuesheet.tracks[i])],
     is_cd |-> mutagen_cuesheet.compact_disc,
     lead_in |-> mutagen_cuesheet.lead_in_samples]

\* Variants of the audio-track condition: the lead-out number 170 as the
\* cutoff, and no cutoff at all.
IsAudioTrack_Below170(t) == t.type = 0 /\ t.number < 170
IsAudioTrack_AnyNumber(t) == t.type = 0

\* The condition of the comprehension in CueSheet.audio_tracks.
IsAudioTrack(t) == t.type = 0 /\ t.number < 100

\* CueSheet.audio_tracks
audio_tracks(cs) ==
    SelectFrom(cs.tracks, {i \in DOMAIN cs.tracks : IsAudioTrack(cs.tracks[i])}, 1)

----------------------------------------------------------------------------
(* Tags.                                                                   *)
(*                                                                         *)
(* Tags._tags is either the container's comment block (kind "vc": every    *)
(* key maps to a list of strings, and assigning a str stores the one-      *)
(* element list holding it) or, when the container has no comment block,   *)
(* a plain Python dict (kind "dict": assigning a str stores that str).     *)
(* A backing store is the record [kind |-> ..., m |-> the mapping].        *)

\* key in self._tags
Contains(S, key) == key \in DOMAIN S.m

\* self._tags[key] = value
SetItem(S, key, value) ==
    [S EXCEPT !.m = DictSet(S.m, key, IF S.kind = "vc" THEN <<value>> ELSE value)]

\* del self._tags[key]
DelItem(S, key) == [S EXCEPT !.m = DictDel(S.m, key)]

\* self._tags[key][0]: the first value of the list (comment block), or the
\* first character of the str (plain dict), IndexError on an empty str.
Index0(S, key) ==
    LET x == S.m[key]
    IN  IF S.kind = "vc" THEN [ok |-> TRUE, v |-> x[1]]
        ELSE IF Len(x) = 0 THEN [ok |-> FALSE, v |-> <<>>]
        ELSE [ok |-> TRUE, v |-> <<x[1]>>]

\* One iteration of the loop of Tags._collect_tags.
CollectStep(S, prefix, name, acc) ==
    LET key == prefix \o name
    IN  IF acc.raised \/ ~Contains(S, key) THEN acc
        ELSE LET x == Index0(S, key)
             IN  IF x.ok THEN [acc EXCEPT !.result = DictSet(@, name, x.v)]
                 ELSE [acc EXCEPT !.raised = TRUE]

RECURSIVE CollectLoop(_, _, _, _, _)
CollectLoop(S, prefix, args, i, acc) ==
    IF i > Len(args) THEN acc
    ELSE CollectLoop(S, prefix, args, i + 1, CollectStep(S, prefix, args[i], acc))

\* Tags._collect_tags: [raised |-> an IndexError escaped, result |-> the dict]
_collect_tags(S, prefix, args) ==
    CollectLoop(S, prefix, args, 1, [raised |-> FALSE, result |-> EmptyDict])

\* One iteration of the loop of Tags._update_tags; st is the record
\* [store, changed, raised] of the loop so far.
UpdateStep(st, d, prefix, name) ==
    LET key == prefix \o name
        inTags == name \in DOMAIN d
        inStore == Contains(st.store, key)
    IN  IF st.raised THEN st
        ELSE IF ~inTags /\ ~inStore THEN st
        ELSE IF inTags /\ ~inStore THEN
            [st EXCEPT !.store = SetItem(@, key, d[name]), !.changed = TRUE]
        ELSE IF ~inTags /\ inStore THEN
            [st EXCEPT !.store = DelItem(@, key), !.changed = TRUE]
        ELSE LET x == Index0(st.store, key)
             IN  IF ~x.ok THEN [st EXCEPT !.raised = TRUE]
                 ELSE IF d[name] # x.v THEN
                     [st EXCEPT !.store = SetItem(DelItem(@, key), key, d[name]),
                                !.changed = TRUE]
                 ELSE st

RECURSIVE UpdateLoop(_, _, _, _, _)
UpdateLoop(st, d, prefix, args, i) ==
    IF i > Len(args) THEN st
    ELSE UpdateLoop(UpdateStep(st, d, prefix, args[i]), d, prefix, args, i + 1)

\* A variant of the version stamp that is written after every change,
\* whether or not the store holds one already.
StampVersion_Overwrite(st) ==
    IF ~st.raised /\ st.changed
    THEN [st EXCEPT !.store = SetItem(@, _VERSION_TAG, StrOf(_VERSION_NUMBER))]
    ELSE st

\* A variant of the version stamp that is skipped when the loop's last
\* change was a deletion that emptied the store.
StampVersion_NotWhenEmptied(st) ==
    IF ~st.raised /\ st.changed /\ ~Contains(st.store, _VERSION_TAG)
       /\ DOMAIN st.store.m # {}
    THEN [st EXCEPT !.store = SetItem(@, _VERSION_TAG, StrOf(_VERSION_NUMBER))]
    ELSE st

\* The version stamp after the loop of Tags._update_tags.
StampVersion(st) ==
    IF ~st.raised /\ st.changed /\ ~Contains(st.store, _VERSION_TAG)
    THEN [st EXCEPT !.store = SetItem(@, _VERSION_TAG, StrOf(_VERSION_NUMBER))]
    ELSE st

\* Tags._update_tags: the store afterwards, the returned flag, and whether an
\* IndexError escaped (the store then keeps the changes made before it).
_update_tags(S, d, prefix, args) ==
    StampVersion(UpdateLoop([store |-> S, changed |-> FALSE, raised |-> FALSE],
                            d, prefix, args, 1))

\* Tags.album_tags / Tags.track_tags on a backing store.
album_tags(S) == _collect_tags(S, "", ALBUM_TAGS)
track_tags(S, number) == _collect_tags(S, TrackPrefix(number), TRACK_TAGS)

\* A variant of update_track that goes through the album-level names.
update_track_AlbumNames(S, number, d) ==
    _update_tags(S, d, TrackPrefix(number), ALBUM_TAGS)

\* Tags.update_album / Tags.update_track on a backing store.
update_album(S, d) == _update_tags(S, d, "", ALBUM_TAGS)
update_track(S, number, d) == _update_tags(S, d, TrackPrefix(number), TRACK_TAGS)

\* Tags.__init__: the Tags object built from the container's comment block.
\* aliased: self._tags is the container's block (its contents live in
\* flac.tags); otherwise self._tags is the private dict `own`.
TagsInit(mutagen_tags) ==
    IF mutagen_tags.some THEN [aliased |-> TRUE, own |-> EmptyDict]
    ELSE [aliased |-> FALSE, own |-> EmptyDict]

----------------------------------------------------------------------------
(* Pictures.                                                               *)
(*                                                                         *)
(* A mutagen Picture carries the six fields of a flackup Picture and also  *)
(* desc and colors, which a freshly made one holds as '' and 0.            *)

\* Picture(type_, mime, width, height, depth, data)
Picture(type_, mime, width, height, depth, data) ==
    [type |-> type_, mime |-> mime, width |-> width, height |-> height,
     depth |-> depth, data |-> data]

\* FileInfo._picture_m2f
_picture_m2f(mp) ==
    Picture(mp.type, mp.mime, mp.width, mp.height, mp.depth, mp.data)

\* A variant of _picture_f2m that assigns width and height crosswise.
_picture_f2m_SwapSize(fp) ==
    [type |-> fp.type, mime |-> fp.mime, desc |-> "", width |-> fp.height,
     height |-> fp.width, depth |-> fp.depth, colors |-> 0, data |-> fp.data]

\* FileInfo._picture_f2m
_picture_f2m(fp) ==
    [type |-> fp.type, mime |-> fp.mime, desc |-> "", width |-> fp.width,
     height |-> fp.height, depth |-> fp.depth, colors |-> 0, data |-> fp.data]

\* The two comprehension conditions over self._flac.pictures, and the lists
\* they build.
Matches(pics, type_) ==
    SelectFrom(pics, {i \in DOMAIN pics : pics[i].type = type_}, 1)
Others(pics, type_) ==
    SelectFrom(pics, {i \in DOMAIN pics : pics[i].type # type_}, 1)

\* FileInfo.pictures on a session whose parse_ok is ok and whose container
\* holds pics: the tuple of Pictures, or None.
PicturesOf(ok, pics) ==
    IF ok THEN Some([i \in DOMAIN pics |-> _picture_m2f(pics[i])]) ELSE None

\* A variant of get_picture without the parse_ok gate.
GetPictureOf_NoGate(ok, pics, type_) ==
    IF Matches(pics, type_) # <<>>
    THEN Some(_picture_m2f(Matches(pics, type_)[1]))
    ELSE None

\* FileInfo.get_picture likewise: the Picture of the given type, or None.
GetPictureOf(ok, pics, type_) ==
    IF ok /\ Matches(pics, type_) # <<>>
    THEN Some(_picture_m2f(Matches(pics, type_)[1]))
    ELSE None

\* A variant of the comparison that leaves the picture data out.
PictureDiffers_IgnoreData(old, new) ==
    ~old.some \/ [old.v EXCEPT !.data = new.data] # new

\* old != new in FileInfo.set_picture: old is what get_picture returned (a
\* Picture or None), new the Picture made of the arguments.
PictureDiffers(old, new) == old # Some(new)

\* A variant of the rebuild that keeps the pictures of the same type.
SetPictureList_KeepAll(pics, old, new) ==
    IF old # Some(new) THEN pics \o <<_picture_f2m(new)>> ELSE pics

\* A variant of the rebuild that puts the new picture first.
SetPictureList_NewFirst(pics, old, new) ==
    IF old # Some(new)
    THEN <<_picture_f2m(new)>> \o Others(pics, new.type)
    ELSE pics

\* The picture list FileInfo.set_picture leaves in the container, given the
\* old picture it found: unchanged when old equals new, else the pictures
\* of other types followed by the new one.
SetPictureList(pics, old, new) ==
    IF PictureDiffers(old, new)
    THEN Others(pics, new.type) \o <<_picture_f2m(new)>>
    ELSE pics

\* A variant of the removal that drops only the first picture of the type.
RemovePictureList_FirstOnly(pics, type_) ==
    LET at == {i \in DOMAIN pics : pics[i].type = type_}
    IN  IF at = {} THEN pics
        ELSE LET first == CHOOSE i \in at : \A j \in at : i <= j
             IN  SubSeq(pics, 1, first - 1) \o SubSeq(pics, first + 1, Len(pics))

\* The picture list FileInfo.remove_picture leaves in the container.
RemovePictureList(pics, type_) ==
    IF Matches(pics, type_) # <<>> THEN Others(pics, type_) ELSE pics

----------------------------------------------------------------------------
(* The container layer (mutagen.flac.FLAC), as far as FileInfo uses it:    *)
(* loading a file yields its cue sheet block (or None), its comment block  *)
(* (or None) and its picture list; saving writes those three back.  A      *)
(* private dict of a Tags object is no part of the container.              *)

\* FLAC(filename) on a readable file.
Load(file) ==
    [cuesheet |-> file.cuesheet, tags |-> file.tags, pictures |-> file.pictures]

\* self._flac.save() when the write succeeds.
Save(container) ==
    [cuesheet |-> container.cuesheet, tags |-> container.tags,
     pictures |-> container.pictures]

----------------------------------------------------------------------------
(* State-dependent views. *)

\* The pictures held by the in-memory container (empty when it is unset).
FlacPictures == IF flac.some THEN flac.v.pictures ELSE <<>>

\* The backing store of self.tags (only when tags is not None).
TagStore ==
    IF tags.v.aliased THEN [kind |-> "vc", m |-> flac.v.tags.v]
    ELSE [kind |-> "dict", m |-> tags.v.own]

\* fi.pictures(), fi.get_picture(t)
pictures == PicturesOf(parse_ok, FlacPictures)
get_picture(type_) == GetPictureOf(parse_ok, FlacPictures, type_)

----------------------------------------------------------------------------
(* FileInfo. *)

\* The record of a call: tick flips with every call, so that two equal
\* calls in a row are still two steps.
Call(op, arg, ret) == [op |-> op, arg |-> arg, ret |-> ret, tick |-> ~last.tick]

\* A variant of parse() whose except branch does not record the exception.
ParseResult_ExceptionDropped(prevFlac, file, loaded) ==
    IF loaded THEN
        [flac |-> Some(Load(file)),
         cuesheet |-> IF Load(file).cuesheet.some
                      THEN Some(CueSheetInit(Load(file).cuesheet.v))
                      ELSE None,
         tags |-> Some(TagsInit(Load(file).tags)),
         parse_ok |-> TRUE,
         parse_exception |-> None]
    ELSE
        [flac |-> prevFlac,
         cuesheet |-> None,
         tags |-> None,
         parse_ok |-> FALSE,
         parse_exception |-> None]

\* FileInfo.parse: the session fields after parsing `file`; loaded tells
\* whether FLAC(self.filename) returned or raised.  When it raises, the
\* assignment to self._flac does not happen and _flac keeps prevFlac.
ParseResult(prevFlac, file, loaded) ==
    IF loaded THEN
        [flac |-> Some(Load(file)),
         cuesheet |-> IF Load(file).cuesheet.some
                      THEN Some(CueSheetInit(Load(file).cuesheet.v))
                      ELSE None,
         tags |-> Some(TagsInit(Load(file).tags)),
         parse_ok |-> TRUE,
         parse_exception |-> None]
    ELSE
        [flac |-> prevFlac,
         cuesheet |-> None,
         tags |-> None,
         parse_ok |-> FALSE,
         parse_exception |-> Some("Exception")]

\* A variant of the assignments of parse() that leaves parse_exception as
\* it was.
Parsed_KeepException(r) ==
    /\ flac' = r.flac
    /\ cuesheet' = r.cuesheet
    /\ tags' = r.tags
    /\ parse_ok' = r.parse_ok
    /\ UNCHANGED parse_exception

\* The session fields become those of the parse result r.
Parsed(r) ==
    /\ flac' = r.flac
    /\ cuesheet' = r.cuesheet
    /\ tags' = r.tags
    /\ parse_ok' = r.parse_ok
    /\ parse_exception' = r.parse_exception

\* FileInfo.__init__(filename) on a file holding `file`.
Constructed(file, loaded) ==
    LET r == ParseResult(None, file, loaded)
    IN  /\ disk = file
        /\ flac = r.flac
        /\ cuesheet = r.cuesheet
        /\ tags = r.tags
        /\ parse_ok = r.parse_ok
        /\ parse_exception = r.parse_exception
        /\ last = [op |-> "__init__", arg |-> <<>>, ret |-> "None", tick |-> FALSE]

\* fi.parse()
Parse(loaded) ==
    /\ Parsed(ParseResult(flac, disk, loaded))
    /\ last' = Call("parse", [loaded |-> loaded], "None")
    /\ UNCHANGED disk

\* A variant of update() that runs parse() also when the write failed.
Update_ParseAnyway(saved, loaded) ==
    IF ~flac.some THEN
        /\ last' = Call("update", [saved |-> saved, loaded |-> loaded],
                        "AttributeError")
        /\ UNCHANGED <<disk, flac, parse_ok, parse_exception, cuesheet, tags>>
    ELSE
        /\ disk' = IF saved THEN Save(flac.v) ELSE disk
        /\ Parsed(ParseResult(flac, IF saved THEN Save(flac.v) ELSE disk, loaded))
        /\ last' = Call("update", [saved |-> saved, loaded |-> loaded],
                        IF saved THEN "None" ELSE "WriteError")

\* fi.update(): self._flac.save() then self.parse().  saved tells whether
\* the write succeeds; a failed write raises before parse() is reached.
\* With _flac unset the attribute access raises.
Update(saved, loaded) ==
    IF ~flac.some THEN
        /\ last' = Call("update", [saved |-> saved, loaded |-> loaded],
                        "AttributeError")
        /\ UNCHANGED <<disk, flac, parse_ok, parse_exception, cuesheet, tags>>
    ELSE IF ~saved THEN
        /\ last' = Call("update", [saved |-> saved, loaded |-> loaded],
                        "WriteError")
        /\ UNCHANGED <<disk, flac, parse_ok, parse_exception, cuesheet, tags>>
    ELSE
        /\ disk' = Save(flac.v)
        /\ Parsed(ParseResult(flac, Save(flac.v), loaded))
        /\ last' = Call("update", [saved |-> saved, loaded |-> loaded], "None")

\* The backing store of self.tags becomes S.
WriteStore(S) ==
    IF tags.v.aliased
    THEN /\ flac' = [flac EXCEPT !.v.tags = Some(S.m)]
         /\ UNCHANGED tags
    ELSE /\ tags' = [tags EXCEPT !.v.own = S.m]
         /\ UNCHANGED flac

\* What a call of _update_tags hands back to its caller.
Outcome(r) == IF r.raised THEN "IndexError"
              ELSE IF r.changed THEN "True" ELSE "False"

\* fi.tags.update_album(d)
UpdateAlbum(d) ==
    /\ tags.some
    /\ LET r == update_album(TagStore, d)
       IN  /\ WriteStore(r.store)
           /\ last' = Call("update_album", [d |-> d], Outcome(r))
    /\ UNCHANGED <<disk, parse_ok, parse_exception, cuesheet>>

\* fi.tags.update_track(number, d)
UpdateTrack(number, d) ==
    /\ tags.some
    /\ LET r == update_track(TagStore, number, d)
       IN  /\ WriteStore(r.store)
           /\ last' = Call("update_track", [number |-> number, d |-> d], Outcome(r))
    /\ UNCHANGED <<disk, parse_ok, parse_exception, cuesheet>>

\* fi.set_picture(type_, mime, width, height, depth, data), new being the
\* Picture made of the arguments.  Outside the Parsed state get_picture
\* yields None, so the rebuild is attempted and reads self._flac.
SetPicture(new) ==
    LET old == get_picture(new.type)
    IN  IF ~PictureDiffers(old, new) THEN
            /\ last' = Call("set_picture", new, "False")
            /\ UNCHANGED <<disk, flac, parse_ok, parse_exception, cuesheet, tags>>
        ELSE IF ~flac.some THEN
            /\ last' = Call("set_picture", new, "AttributeError")
            /\ UNCHANGED <<disk, flac, parse_ok, parse_exception, cuesheet, tags>>
        ELSE
            /\ flac' = [flac EXCEPT !.v.pictures = SetPictureList(@, old, new)]
            /\ last' = Call("set_picture", new, "True")
            /\ UNCHANGED <<disk, parse_ok, parse_exception, cuesheet, tags>>

\* fi.remove_picture(type_)
RemovePicture(type_) ==
    IF ~flac.some THEN
        /\ last' = Call("remove_picture", [type |-> type_], "AttributeError")
        /\ UNCHANGED <<disk, flac, parse_ok, parse_exception, cuesheet, tags>>
    ELSE
        /\ flac' = [flac EXCEPT !.v.pictures = RemovePictureList(@, type_)]
        /\ last' = Call("remove_picture", [type |-> type_],
                        IF Matches(flac.v.pictures, type_) # <<>>
                        THEN "True" ELSE "False")
        /\ UNCHANGED <<disk, parse_ok, parse_exception, cuesheet, tags>>

\* fi.cuesheet.audio_tracks
AudioTracks ==
    /\ cuesheet.some
    /\ last' = Call("audio_tracks", <<>>, audio_tracks(cuesheet.v))
    /\ UNCHANGED <<disk, flac, parse_ok, parse_exception, cuesheet, tags>>

----------------------------------------------------------------------------
(* Inputs. *)

\* A file with the given blocks.
File(cs, vc, pics) == [cuesheet |-> cs, tags |-> vc, pictures |-> pics]

\* Sequences over S of length at most n.
SeqsUpTo(S, n) == UNION {[1..k -> S] : k \in 0..n}

\* Tag values: '', 'X', 'Bar' (and 'Foo', '2001', '0' in parsed blocks).
Empty == <<>>
X == <<"X">>
Bar == <<"B", "a", "r">>
Foo == <<"F", "o", "o">>
Y2001 == <<"2", "0", "0", "1">>
TagValueInputs == {Empty, X, Bar}

\* Sets of names to functions from them to the tag values: every dict with
\* keys among Names and values among TagValueInputs.
DictsOver(Names) == UNION {[S -> TagValueInputs] : S \in SUBSET Names}

\* The desired-tags mappings handed to update_album: every mapping of TITLE
\* and ARTIST, and mappings of TITLE together with a name outside
\* ALBUM_TAGS.
AlbumTagInputs ==
    DictsOver({"TITLE", "ARTIST"})
    \cup {d @@ "BOGUS" :> X : d \in DictsOver({"TITLE"})}

\* The desired-tags mappings handed to update_track: every mapping of TITLE,
\* and two of them together with a name outside TRACK_TAGS.
TrackTagInputs ==
    DictsOver({"TITLE"})
    \cup {d @@ "DATE" :> Y2001 : d \in {EmptyDict, "TITLE" :> X}}

TrackNumbers == 1..MaxTrackNumber

\* Comment blocks a file may hold: none, an empty one, single and multiple
\* values, album-only and foreign keys, a version stamp of another version.
MutagenTagsInputs ==
    { None,
      Some(EmptyDict),
      Some("TITLE" :> <<Foo>>),
      Some("TITLE" :> <<Foo, Bar>> @@ "TRACK_01_TITLE" :> <<X>>),
      Some("DATE" :> <<Y2001>> @@ "TRACK_01_DATE" :> <<Y2001>>
           @@ "COMMENT" :> <<Foo>>),
      Some("ARTIST" :> <<X>> @@ _VERSION_TAG :> <<<<"0">>>>) }

\* Cue sheet tracks as mutagen holds them: audio and data tracks with
\* numbers at and around the cutoffs (170 and 255 are lead-out numbers).
MutagenTrackInputs ==
    {[track_number |-> n, start_offset |-> 588 * n, isrc |-> "", type |-> t] :
        n \in {1, 99, 100, 169, 170, 255}, t \in {0, 1}}

MutagenCueSheetInputs ==
    {[tracks |-> ts, compact_disc |-> TRUE, lead_in_samples |-> 88200] :
        ts \in SeqsUpTo(MutagenTrackInputs, MaxTracks)}

\* Pictures: a base picture per type and, of type 3, one variant per field.
PictureTypes == {3, 4}
BasePicture(t) == Picture(t, "image/png", 1, 1, 8, "d1")
PictureInputs ==
    {BasePicture(t) : t \in PictureTypes}
    \cup {[BasePicture(3) EXCEPT !.mime = "image/jpeg"],
          [BasePicture(3) EXCEPT !.width = 2],
          [BasePicture(3) EXCEPT !.height = 2],
          [BasePicture(3) EXCEPT !.depth = 24],
          [BasePicture(3) EXCEPT !.data = "d2"]}

\* Pictures as a file may hold them (a description may be present).
MutagenPictureInputs ==
    {_picture_f2m(BasePicture(3)),
     [_picture_f2m(BasePicture(3)) EXCEPT !.desc = "cover"],
     [_picture_f2m(BasePicture(3)) EXCEPT !.data = "d2"],
     _picture_f2m(BasePicture(4))}

----------------------------------------------------------------------------
(* SpecCue: cue sheets of every bounded track list, and audio_tracks. *)

InitCue ==
    \E cs \in MutagenCueSheetInputs : Constructed(File(Some(cs), None, <<>>), TRUE)

NextCue == AudioTracks

SpecCue == InitCue /\ [][NextCue]_vars

----------------------------------------------------------------------------
(* SpecTags: a Tags store built from any of the comment blocks (or from    *)
(* none), under update_album and update_track.                             *)

InitTags ==
    \E mt \in MutagenTagsInputs : Constructed(File(None, mt, <<>>), TRUE)

NextTags ==
    \/ \E d \in AlbumTagInputs : UpdateAlbum(d)
    \/ \E n \in TrackNumbers, d \in TrackTagInputs : UpdateTrack(n, d)

SpecTags == InitTags /\ [][NextTags]_vars

----------------------------------------------------------------------------
(* SpecScopes: a Tags store holding album tags and the tags of several     *)
(* tracks (or built from no block), under update_album and update_track of *)
(* each of the tracks.                                                     *)

ScopeTrackNumbers == 1..MaxScopeTrack

ScopeTagsInputs ==
    { None,
      Some(EmptyDict),
      Some("TITLE" :> <<Foo>> @@ "TRACK_01_TITLE" :> <<X>>
           @@ "TRACK_02_TITLE" :> <<Bar>>),
      Some("TITLE" :> <<X>> @@ "TRACK_02_TITLE" :> <<X>>
           @@ _VERSION_TAG :> <<<<"0">>>>) }

ScopeDictInputs == DictsOver({"TITLE"})

InitScopes ==
    \E mt \in ScopeTagsInputs : Constructed(File(None, mt, <<>>), TRUE)

NextScopes ==
    \/ \E d \in ScopeDictInputs : UpdateAlbum(d)
    \/ \E n \in ScopeTrackNumbers, d \in ScopeDictInputs : UpdateTrack(n, d)

SpecScopes == InitScopes /\ [][NextScopes]_vars

----------------------------------------------------------------------------
(* SpecPictures: a session parsed from any bounded picture list, under     *)
(* set_picture and remove_picture.                                         *)

InitPictures ==
    \E pics \in SeqsUpTo(MutagenPictureInputs, MaxParsedPictures) :
        Constructed(File(None, None, pics), TRUE)

NextPictures ==
    \/ \E p \in PictureInputs : SetPicture(p)
    \/ \E t \in PictureTypes : RemovePicture(t)

SpecPictures == InitPictures /\ [][NextPictures]_vars

----------------------------------------------------------------------------
(* Spec: the whole session.  A file with or without blocks is opened (the  *)
(* first parse may fail); tags and pictures are changed, and update()      *)
(* persists and re-parses, either of which may fail.                       *)

SessionCueSheet ==
    [tracks |-> <<[track_number |-> 1, start_offset |-> 0, isrc |-> "", type |-> 0],
                  [track_number |-> 170, start_offset |-> 588, isrc |-> "", type |-> 0]>>,
     compact_disc |-> TRUE, lead_in_samples |-> 88200]

SessionFiles ==
    { File(None, None, <<>>),
      File(Some(SessionCueSheet), Some("TITLE" :> <<Foo>>),
           <<[_picture_f2m(BasePicture(3)) EXCEPT !.desc = "cover"]>>) }

SessionAlbumInputs == {EmptyDict, "TITLE" :> X, "TITLE" :> Bar}
SessionTrackInputs == {EmptyDict, "TITLE" :> X}
SessionPictureInputs ==
    {BasePicture(3), [BasePicture(3) EXCEPT !.data = "d2"]}
SessionPictureTypes == {3}

Init == \E file \in SessionFiles, loaded \in BOOLEAN : Constructed(file, loaded)

Next ==
    \/ \E loaded \in BOOLEAN : Parse(loaded)
    \/ \E saved \in BOOLEAN, loaded \in BOOLEAN : Update(saved, loaded)
    \/ \E d \in SessionAlbumInputs : UpdateAlbum(d)
    \/ \E d \in SessionTrackInputs : UpdateTrack(1, d)
    \/ \E p \in SessionPictureInputs : SetPicture(p)
    \/ \E t \in SessionPictureTypes : RemovePicture(t)

Spec == Init /\ [][Next]_vars

----------------------------------------------------------------------------
(* Properties. *)

UpdateOps == {"update_album", "update_track"}

\* r holds exactly the elements of s that satisfy P, in the order of s.
IsFilterOf(r, s, P(_)) ==
    LET idx == {j \in DOMAIN s : P(s[j])}
    IN  /\ Len(r) = Cardinality(idx)
        /\ \A j \in idx : r[Cardinality({k \in idx : k <= j})] = s[j]

\* r is made of elements of s, in the relative order they have in s.
IsSubsequenceOf(r, s) ==
    \E f \in [DOMAIN r -> DOMAIN s] :
        /\ \A i, j \in DOMAIN r : i < j => f[i] < f[j]
        /\ \A i \in DOMAIN r : r[i] = s[f[i]]

\* C1 as stated: after update_album(d), album_tags() returns exactly d
\* restricted to ALBUM_TAGS, each name with the full value given, whether
\* the store was built from a comment block or from None.
C1_RoundTrip ==
    last.op = "update_album" =>
        album_tags(TagStore) =
            [raised |-> FALSE, result |-> Restrict(last.arg.d, Range(ALBUM_TAGS))]

\* C2 as stated: a second update_album (or update_track) call with the
\* arguments of the call before it returns False and leaves the backing
\* store as it was.
C2_Idempotent ==
    [][(last.op \in UpdateOps /\ last'.op = last.op /\ last'.arg = last.arg)
          => (last'.ret = "False" /\ TagStore' = TagStore)]_vars

\* C3 as stated: audio_tracks is the order-preserving subsequence of the
\* tracks with type == 0 and number < 170.
C3_Below170 ==
    last.op = "audio_tracks" =>
        LET P(t) == t.type = 0 /\ t.number < 170
        IN  IsFilterOf(last.ret, cuesheet.v.tracks, P)

\* C3 amended: audio_tracks is the order-preserving subsequence of the
\* tracks with type == 0 and number < 100; an audio-type track numbered in
\* 100..169 is left out.
C3_Below100 ==
    last.op = "audio_tracks" =>
        LET P(t) == t.type = 0 /\ t.number < 100
        IN  /\ IsFilterOf(last.ret, cuesheet.v.tracks, P)
            /\ \A i \in DOMAIN last.ret : last.ret[i].number \notin 100..169

\* C3 witness: audio_tracks was taken of a list holding audio tracks
\* numbered 99, 100 and 169, and returned only the first.
C3_Witness ==
    /\ last.op = "audio_tracks"
    /\ Len(cuesheet.v.tracks) = 3
    /\ \A i \in 1..3 : cuesheet.v.tracks[i].type = 0
    /\ cuesheet.v.tracks[1].number = 100
    /\ cuesheet.v.tracks[2].number = 99
    /\ cuesheet.v.tracks[3].number = 169
    /\ last.ret = <<cuesheet.v.tracks[2]>>

\* C4: audio_tracks holds no track numbered 170 and no track of non-zero
\* type, and is made of elements of tracks in their relative order.
C4_NoLeadOutNoData ==
    last.op = "audio_tracks" =>
        /\ \A i \in DOMAIN last.ret :
              last.ret[i].number # 170 /\ last.ret[i].type = 0
        /\ IsSubsequenceOf(last.ret, cuesheet.v.tracks)

\* C4 witness: audio_tracks was taken of a list holding only an audio-type
\* lead-out, and returned nothing.
C4_Witness ==
    /\ last.op = "audio_tracks"
    /\ Len(cuesheet.v.tracks) = 1
    /\ cuesheet.v.tracks[1].number = 170
    /\ cuesheet.v.tracks[1].type = 0
    /\ last.ret = <<>>

\* What the read accessors of a Parsed session return.
Reads ==
    [album |-> album_tags(TagStore),
     tracks |-> [n \in TrackNumbers |-> track_tags(TagStore, n)],
     pictures |-> pictures]

\* C5 as stated: when update() persists and re-parses successfully in a
\* Parsed session, album_tags(), track_tags(n) and pictures() read after it
\* what they read before it, also when the file has no comment block.
C5_ReadAfterWrite ==
    [][(parse_ok /\ last'.op = "update" /\ last'.ret = "None" /\ parse_ok')
          => Reads' = Reads]_vars

\* The number of pictures of type t in pics.
CountOfType(pics, t) == Len(Matches(pics, t))

TypesIn(pics) == {pics[i].type : i \in DOMAIN pics}

\* C6 as stated: in every state of a Parsed session, whatever the parsed
\* picture list, the collection holds at most one picture per type.
C6_AtMostOnePerType ==
    parse_ok => \A t \in TypesIn(FlacPictures) : CountOfType(FlacPictures, t) <= 1

\* C6 amended: set_picture and remove_picture never add a second picture of
\* a type: a type holds at most one picture, or at most as many as the
\* parsed list held of it; so a session parsed from a list with at most one
\* picture per type holds at most one per type in every state.
C6_NoNewDuplicates ==
    parse_ok =>
        \A t \in TypesIn(FlacPictures) :
            \/ CountOfType(FlacPictures, t) <= 1
            \/ CountOfType(FlacPictures, t) <= CountOfType(disk.pictures, t)

\* C6 witness: the parsed list held one picture of type 3; a set_picture
\* has replaced it, and the collection holds one picture of each type.
C6_Witness ==
    /\ parse_ok
    /\ last.op = "set_picture" /\ last.ret = "True" /\ last.arg.type = 3
    /\ CountOfType(disk.pictures, 3) = 1
    /\ _picture_m2f(disk.pictures[1]) # last.arg
    /\ CountOfType(FlacPictures, 3) = 1
    /\ CountOfType(FlacPictures, 4) = 1

\* C7: after set_picture, get_picture of that type returns a Picture equal
\* to the arguments in all six fields; and when set_picture returned True
\* the collection holds exactly one picture of that type.
C7_SetThenGet ==
    (parse_ok /\ last.op = "set_picture") =>
        /\ get_picture(last.arg.type) = Some(last.arg)
        /\ \A f \in {"type", "mime", "width", "height", "depth", "data"} :
              get_picture(last.arg.type).v[f] = last.arg[f]
        /\ last.ret = "True" => CountOfType(FlacPictures, last.arg.type) = 1

\* C7 witness: set_picture returned True on a collection parsed with two
\* pictures of that type, and get_picture returns the picture set.
C7_Witness ==
    /\ parse_ok
    /\ last.op = "set_picture" /\ last.ret = "True"
    /\ last.arg.width = 2
    /\ CountOfType(disk.pictures, last.arg.type) = 2
    /\ get_picture(last.arg.type) = Some(last.arg)

\* C8: set_picture returns False exactly when get_picture of that type
\* already equals the candidate in all six fields, and then leaves the
\* collection unchanged; in every other case it returns True.
C8_SetPictureChanged ==
    [][(parse_ok /\ last'.op = "set_picture") =>
          LET new == last'.arg
              same == /\ get_picture(new.type).some
                      /\ \A f \in {"type", "mime", "width", "height", "depth", "data"} :
                            get_picture(new.type).v[f] = new[f]
          IN  /\ last'.ret = "False" <=> same
              /\ last'.ret = "True" <=> ~same
              /\ same => FlacPictures' = FlacPictures]_vars

\* C8 witness: set_picture returned False on a collection holding a picture
\* of that type with the same six fields, which is still there.
C8_Witness ==
    /\ parse_ok
    /\ last.op = "set_picture" /\ last.ret = "False"
    /\ FlacPictures # <<>>
    /\ FlacPictures = disk.pictures
    /\ FlacPictures[1].desc = "cover"
    /\ _picture_m2f(FlacPictures[1]) = last.arg

\* C9: remove_picture returns False and leaves the collection unchanged
\* when no picture of the type exists; when one or more exist it returns
\* True and afterwards get_picture of the type returns None.
C9_RemovePicture ==
    [][(parse_ok /\ last'.op = "remove_picture") =>
          LET t == last'.arg.type
          IN  IF CountOfType(FlacPictures, t) = 0
              THEN last'.ret = "False" /\ FlacPictures' = FlacPictures
              ELSE /\ last'.ret = "True"
                   /\ GetPictureOf(parse_ok', FlacPictures', t) = None
                   /\ CountOfType(FlacPictures', t) = 0]_vars

\* C9 witness: remove_picture returned True on a collection parsed with
\* two pictures of that type, and none of that type is left.
C9_Witness ==
    /\ parse_ok
    /\ last.op = "remove_picture" /\ last.ret = "True"
    /\ CountOfType(disk.pictures, last.arg.type) = 2
    /\ get_picture(last.arg.type) = None

\* The value stored under FLACKUP_VERSION is the string '1'.
VersionIsOne(S) ==
    S.m[_VERSION_TAG] = (IF S.kind = "vc" THEN <<StrOf(1)>> ELSE StrOf(1))

\* C10: after an update_album or update_track call that returned True,
\* FLACKUP_VERSION is present (with value '1' when that call inserted it),
\* also when the call only deleted tags; and FLACKUP_VERSION appears in a
\* store only by a call that returns True.
C10_VersionStamp ==
    [][LET before == Contains(TagStore, _VERSION_TAG)
           after == Contains(TagStore', _VERSION_TAG)
       IN  /\ (last'.op \in UpdateOps /\ last'.ret = "True") => after
           /\ (~before /\ after) =>
                 /\ last'.op \in UpdateOps /\ last'.ret = "True"
                 /\ VersionIsOne(TagStore')]_vars

\* C10 witness: update_album({}) returned True on a store that held only
\* TITLE, deleting it, and the store now holds only FLACKUP_VERSION = '1'.
C10_Witness ==
    /\ last.op = "update_album" /\ last.arg.d = EmptyDict /\ last.ret = "True"
    /\ disk.tags = Some("TITLE" :> <<Foo>>)
    /\ DOMAIN TagStore.m = {_VERSION_TAG}
    /\ VersionIsOne(TagStore)

\* The scope a call of update_album / update_track addresses: its key
\* prefix, its recognized names, and the keys these make.
ScopePrefix(call) ==
    IF call.op = "update_album" THEN "" ELSE TrackPrefix(call.arg.number)
ScopeNames(call) ==
    IF call.op = "update_album" THEN Range(ALBUM_TAGS) ELSE Range(TRACK_TAGS)
ScopeKeys(call) == {ScopePrefix(call) \o name : name \in ScopeNames(call)}

\* The typed view of the scope a call addresses (album_tags() or
\* track_tags(number)) on the store S.
ScopeView(S, call) ==
    IF call.op = "update_album" THEN album_tags(S)
    ELSE track_tags(S, call.arg.number)

\* C11 as stated: update_album / update_track return True if and only if a
\* recognized key of the addressed scope was inserted, deleted or given a
\* different value, that is iff the typed view of the scope before the call
\* differs from the desired mapping restricted to the recognized names;
\* otherwise they return False; names outside the recognized set are never
\* inserted.
C11_ChangedIffDiffers ==
    [][last'.op \in UpdateOps =>
          LET keys == ScopeKeys(last')
              want == [raised |-> FALSE,
                       result |-> Restrict(last'.arg.d, ScopeNames(last'))]
              touched == Restrict(TagStore.m, keys) # Restrict(TagStore'.m, keys)
              differs == ScopeView(TagStore, last') # want
          IN  /\ last'.ret \in {"True", "False"}
              /\ last'.ret = "True" <=> touched
              /\ last'.ret = "True" <=> differs
              /\ (DOMAIN TagStore'.m) \ (DOMAIN TagStore.m)
                     \subseteq (keys \cap {ScopePrefix(last') \o n : n \in DOMAIN last'.arg.d})
                                \cup {_VERSION_TAG}]_vars

\* The album-level and the track-level typed views return recognized names
\* of their scope only, each the name of a key the store holds.
ViewsShowOnlyScope ==
    /\ DOMAIN album_tags(TagStore).result
          \subseteq {n \in Range(ALBUM_TAGS) : Contains(TagStore, n)}
    /\ \A number \in TrackNumbers :
          DOMAIN track_tags(TagStore, number).result
            \subseteq {n \in Range(TRACK_TAGS) :
                          Contains(TagStore, TrackPrefix(number) \o n)}

\* C12: keys that are no recognized name of the addressed scope are never
\* returned by album_tags() / track_tags(n), and an update_album or
\* update_track call neither inserts, deletes nor modifies any key outside
\* its scope, FLACKUP_VERSION excepted.
C12_ForeignKeysUntouched ==
    /\ [](tags.some => ViewsShowOnlyScope)
    /\ [][last'.op \in UpdateOps =>
            \A key \in ((DOMAIN TagStore.m) \cup (DOMAIN TagStore'.m))
                          \ (ScopeKeys(last') \cup {_VERSION_TAG}) :
                /\ Contains(TagStore, key) /\ Contains(TagStore', key)
                /\ TagStore'.m[key] = TagStore.m[key]]_vars

\* C12 witness: update_track(1, d) with DATE in d returned True on a store
\* holding TRACK_01_DATE and COMMENT; both are still there with their
\* values, DATE was not written and track_tags(1) does not show DATE.
C12_Witness ==
    /\ last.op = "update_track" /\ last.ret = "True"
    /\ last.arg.number = 1
    /\ "DATE" \in DOMAIN last.arg.d
    /\ Contains(TagStore, "TRACK_01_DATE") /\ Contains(TagStore, "COMMENT")
    /\ TagStore.m["TRACK_01_DATE"] = <<Y2001>>
    /\ TagStore.m["COMMENT"] = <<Foo>>
    /\ Contains(TagStore, "TRACK_01_TITLE")
    /\ "DATE" \notin DOMAIN track_tags(TagStore, 1).result

\* C13: in the Failed state (parse_ok is False), however it was reached,
\* cuesheet is None, tags is None, pictures() returns None and
\* get_picture(t) returns None for every t.
C13_FailedDegrades ==
    ~parse_ok =>
        /\ cuesheet = None
        /\ tags = None
        /\ pictures = None
        /\ \A t \in PictureTypes : get_picture(t) = None

\* C13 witness: Failed was reached by the re-parse inside update(), the
\* container of the earlier parse still holds a picture, and the accessors
\* return None.
C13_Witness ==
    /\ ~parse_ok
    /\ last.op = "update" /\ last.ret = "None"
    /\ flac.some /\ flac.v.pictures # <<>>
    /\ flac.v.cuesheet.some /\ flac.v.tags.some
    /\ cuesheet = None /\ tags = None /\ pictures = None
    /\ get_picture(flac.v.pictures[1].type) = None

Raised == {"AttributeError", "IndexError", "WriteError"}

\* C14 as stated: in the Failed state set_picture, remove_picture and
\* update() do not raise, set_picture and remove_picture return False and
\* leave the in-memory container as it is, and nothing is persisted.
C14_FailedInert ==
    [][(~parse_ok /\ last'.op \in {"set_picture", "remove_picture", "update"}) =>
          /\ last'.ret \notin Raised
          /\ disk' = disk
          /\ last'.op \in {"set_picture", "remove_picture"} =>
                (last'.ret = "False" /\ flac' = flac)]_vars

\* The four session fields; of tags, which Tags object it refers to (none,
\* the one over the container's block, the one over a private dict), not
\* the contents of its store.
SessionFields ==
    [parse_ok |-> parse_ok,
     parse_exception |-> parse_exception,
     cuesheet |-> cuesheet,
     tags |-> IF tags.some THEN Some(tags.v.aliased) ELSE None]

\* C15: parse_ok, parse_exception, cuesheet and tags change only in parse(),
\* called directly or from update(); the picture and Tags operations, and
\* an update() that raises before its parse(), leave them unchanged; Failed
\* becomes Parsed only by a parse() whose load succeeds, and a parse() whose
\* load succeeds yields Parsed whatever the state before.
C15_OnlyParseChangesSession ==
    [][/\ SessionFields' # SessionFields => last'.op \in {"parse", "update"}
       /\ (last'.op = "update" /\ last'.ret \in Raised)
             => SessionFields' = SessionFields
       /\ (~parse_ok /\ parse_ok')
             => (last'.op \in {"parse", "update"} /\ last'.arg.loaded)
       /\ (last'.op = "parse" /\ last'.arg.loaded)
             => (parse_ok' /\ parse_exception' = None /\ tags'.some)]_vars

\* C15 witness: a Failed session on which set_picture has acted (on the
\* container of the earlier parse) is still Failed, its fields unchanged.
C15_Witness ==
    /\ last.op = "set_picture" /\ last.ret = "True"
    /\ ~parse_ok /\ parse_exception # None
    /\ cuesheet = None /\ tags = None

\* The last call ran parse() to its end: the constructor, parse(), or an
\* update() that did not raise.
JustParsed ==
    \/ last.op \in {"__init__", "parse"}
    \/ last.op = "update" /\ last.ret = "None"

\* C16: the session fields are consistent: parse_ok is True iff
\* parse_exception is None; when parse_ok is False, cuesheet and tags are
\* None; when it is True, tags is a Tags store and cuesheet is there iff
\* the container has a cue sheet block (then with the container's tracks);
\* right after a parse of a container without comment block the store is
\* empty.
C16_FieldsConsistent ==
    /\ parse_ok <=> parse_exception = None
    /\ ~parse_ok => (cuesheet = None /\ tags = None)
    /\ parse_ok =>
          /\ tags.some
          /\ cuesheet.some <=> flac.v.cuesheet.some
          /\ cuesheet.some =>
                /\ Len(cuesheet.v.tracks) = Len(flac.v.cuesheet.v.tracks)
                /\ \A i \in DOMAIN cuesheet.v.tracks :
                      cuesheet.v.tracks[i].number
                        = flac.v.cuesheet.v.tracks[i].track_number
          /\ (JustParsed /\ ~flac.v.tags.some) =>
                (TagStore.m = EmptyDict
                 /\ album_tags(TagStore) = [raised |-> FALSE, result |-> EmptyDict])

\* C16 witness: update() re-parsed a container that has neither comment
\* block nor cue sheet: Parsed, no exception, no cuesheet, an empty store.
C16_Witness ==
    /\ last.op = "update" /\ last.ret = "None"
    /\ parse_ok /\ parse_exception = None
    /\ ~flac.v.tags.some /\ ~flac.v.cuesheet.some
    /\ cuesheet = None
    /\ tags.some /\ TagStore.m = EmptyDict

\* C17: when the write of update() fails in a Parsed session, parse() is
\* not run and the session is as before the call: parse_ok True,
\* parse_exception None, cuesheet and tags the same, the in-memory
\* container (and a private tag dict) still holding the pending changes,
\* the file as it was.
C17_FailedWriteLeavesSession ==
    [][(parse_ok /\ last'.op = "update" /\ ~last'.arg.saved) =>
          /\ last'.ret = "WriteError"
          /\ parse_ok' /\ parse_exception' = None
          /\ cuesheet' = cuesheet
          /\ tags' = tags
          /\ flac' = flac
          /\ disk' = disk]_vars

\* C17 witness: update() failed to write in a Parsed session whose
\* container holds a changed comment block and a changed picture list,
\* neither of which the file holds.
C17_Witness ==
    /\ last.op = "update" /\ last.ret = "WriteError"
    /\ parse_ok /\ parse_exception = None
    /\ flac.v.tags.some /\ flac.v.tags # disk.tags
    /\ flac.v.pictures # disk.pictures

\* The pictures of s whose type is not t, in the order they have in s.
NotOfType(s, t) == SelectFrom(s, {i \in DOMAIN s : s[i].type # t}, 1)

\* C18: in a Parsed session set_picture(t, ...) and remove_picture(t) keep
\* every picture of another type, with the same fields (in the container
\* and in pictures()) and in the same relative order; and when set_picture
\* returns True the new picture is the last element of pictures().
C18_OtherTypesKept ==
    [][(parse_ok /\ last'.op \in {"set_picture", "remove_picture"}) =>
          LET t == last'.arg.type
              before == PicturesOf(parse_ok, FlacPictures).v
              after == PicturesOf(parse_ok', FlacPictures').v
          IN  /\ NotOfType(FlacPictures', t) = NotOfType(FlacPictures, t)
              /\ NotOfType(after, t) = NotOfType(before, t)
              /\ (last'.op = "set_picture" /\ last'.ret = "True") =>
                    /\ after # <<>>
                    /\ after[Len(after)] = last'.arg]_vars

\* C18 witness: set_picture returned True on a collection parsed as a
\* picture of the type followed by one of another type; the other picture
\* is now first and the new one last.
C18_Witness ==
    /\ parse_ok
    /\ last.op = "set_picture" /\ last.ret = "True"
    /\ Len(disk.pictures) = 2
    /\ disk.pictures[1].type = last.arg.type
    /\ disk.pictures[2].type # last.arg.type
    /\ Len(FlacPictures) = 2
    /\ FlacPictures[1] = disk.pictures[2]
    /\ pictures.v[2] = last.arg

\* C18 witness for the removal: remove_picture returned True on a
\* collection parsed with a picture of another type, which is all that is
\* left.
C18_WitnessRemove ==
    /\ parse_ok
    /\ last.op = "remove_picture" /\ last.ret = "True"
    /\ Len(disk.pictures) = 2
    /\ FlacPictures = NotOfType(disk.pictures, last.arg.type)
    /\ Len(FlacPictures) = 1

\* The (scope, name) pairs of the album scope and of the track scopes up to
\* MaxEncodedNumber, and the key each is stored under.
ScopePairs ==
    {<<"album", 0, ALBUM_TAGS[i]>> : i \in DOMAIN ALBUM_TAGS}
    \cup {<<"track", n, TRACK_TAGS[i]>> :
             n \in 0..MaxEncodedNumber, i \in DOMAIN TRACK_TAGS}

KeyOf(p) == IF p[1] = "album" THEN "" \o p[3] ELSE TrackPrefix(p[2]) \o p[3]

KeysDistinct ==
    /\ \A p \in ScopePairs : KeyOf(p) # _VERSION_TAG
    /\ \A p, q \in ScopePairs : p # q => KeyOf(p) # KeyOf(q)

\* C19: distinct (scope, name) pairs are stored under distinct keys, none
\* of them FLACKUP_VERSION; update_track(n, d) changes neither what
\* album_tags() returns nor what track_tags(m) returns for a track m other
\* than n, and update_album(d) changes what no track_tags(n) returns.
\* (The keys do not depend on the state: they are compared in the states
\* a construction leaves.)
C19_ScopesIsolated ==
    /\ [](last.op = "__init__" => KeysDistinct)
    /\ [][(tags.some /\ last'.op \in UpdateOps) =>
             /\ last'.op = "update_track" =>
                   /\ album_tags(TagStore') = album_tags(TagStore)
                   /\ \A m \in ScopeTrackNumbers \ {last'.arg.number} :
                         track_tags(TagStore', m) = track_tags(TagStore, m)
             /\ last'.op = "update_album" =>
                   \A n \in ScopeTrackNumbers :
                       track_tags(TagStore', n) = track_tags(TagStore, n)]_vars

\* C19 witness: update_track(1, d) returned True on a store that holds a
\* title for the album, for track 1 and for track 2, the three different.
C19_Witness ==
    /\ tags.some
    /\ last.op = "update_track" /\ last.ret = "True" /\ last.arg.number = 1
    /\ Contains(TagStore, "TITLE")
    /\ Contains(TagStore, "TRACK_01_TITLE")
    /\ Contains(TagStore, "TRACK_02_TITLE")
    /\ ~album_tags(TagStore).raised
    /\ ~track_tags(TagStore, 1).raised
    /\ ~track_tags(TagStore, 2).raised
    /\ album_tags(TagStore).result # track_tags(TagStore, 1).result
    /\ album_tags(TagStore).result # track_tags(TagStore, 2).result
    /\ track_tags(TagStore, 1).result # track_tags(TagStore, 2).result

\* C20: an update_album or update_track call on a store that holds
\* FLACKUP_VERSION leaves it there with the value it had, whatever that
\* value is; and a call that returns False on a store without it leaves
\* the store without it.
C20_VersionKept ==
    [][(tags.some /\ last'.op \in UpdateOps) =>
          /\ Contains(TagStore, _VERSION_TAG) =>
                /\ Contains(TagStore', _VERSION_TAG)
                /\ TagStore'.m[_VERSION_TAG] = TagStore.m[_VERSION_TAG]
          /\ (last'.ret = "False" /\ ~Contains(TagStore, _VERSION_TAG)) =>
                ~Contains(TagStore', _VERSION_TAG)]_vars

\* C20 witness: an update returned True on a store parsed with
\* FLACKUP_VERSION = '0', changing another key, and the stamp is still '0'.
C20_Witness ==
    /\ tags.some
    /\ last.op \in UpdateOps /\ last.ret = "True"
    /\ disk.tags.some /\ _VERSION_TAG \in DOMAIN disk.tags.v
    /\ Contains(TagStore, _VERSION_TAG)
    /\ TagStore.m[_VERSION_TAG] = <<<<"0">>>>
    /\ DOMAIN TagStore.m # DOMAIN disk.tags.v

\* C20 witness for the second part: an update returned False on a store
\* without FLACKUP_VERSION, which still has none.
C20_WitnessFalse ==
    /\ tags.some
    /\ last.op \in UpdateOps /\ last.ret = "False"
    /\ DOMAIN TagStore.m # {}
    /\ ~Contains(TagStore, _VERSION_TAG)

====
